---- MODULE Spec2Model ----
(***************************************************************************)
(* Model of check-vpn.py: a watchdog that locates the OpenVPN client,      *)
(* launches it when absent, probes connectivity and restarts the client    *)
(* while the probe reports unhealthy.                                      *)
(*                                                                         *)
(* Text (command lines, routing-table lines, route prefixes) is a sequence *)
(* of one-character strings so that substring, prefix, lower-casing and    *)
(* field splitting are computed as the code computes them.  Every external *)
(* command the program runs is appended to the history variable log.       *)
(***************************************************************************)
EXTENDS Integers, Sequences, FiniteSets, TLC

\* ------------------------------------------------------------------ bounds

\* Largest number of passes through the head of the while loop of main.
MaxIter == 2

\* Largest number of lines of a configuration file.
MaxLines == 4

\* ------------------------------------------------------- program constants

DEFAULT_REMOTE_HOST == "4.2.2.2"
SETTLE_DELAY == 30
GRACE_DELAY == 5
\* Python's None for vpn_client_pid (every real pid is positive).
None == -1
\* errno of FileNotFoundError (ENOENT).
ENOENT == 2
\* Exit status of a failed launch.
EXIT_LAUNCH_FAILED == 1

\* ------------------------------------------------------------ text helpers

\* The text "openvpn", the marker of the VPN client binary.
OPENVPN == <<"o", "p", "e", "n", "v", "p", "n">>

\* str.lower() on one character (the upper-case letters the inputs use).
LowerChar(c) ==
    CASE c = "A" -> "a"
      [] c = "B" -> "b"
      [] c = "O" -> "o"
      [] c = "P" -> "p"
      [] c = "E" -> "e"
      [] c = "N" -> "n"
      [] c = "V" -> "v"
      [] OTHER -> c

\* str.lower()
Lower(s) == [i \in 1..Len(s) |-> LowerChar(s[i])]

\* Python's `sub in s` for text.
Contains(s, sub) ==
    \E i \in 0..(Len(s) - Len(sub)) :
        \A j \in 1..Len(sub) : s[i + j] = sub[j]

\* str.startswith
StartsWith(s, p) ==
    /\ Len(p) <= Len(s)
    /\ \A j \in 1..Len(p) : s[j] = p[j]

\* Index of the first non-blank character of s at or after i (Len(s)+1 if none).
RECURSIVE SkipBlank(_, _)
SkipBlank(s, i) ==
    IF i > Len(s) THEN i
    ELSE IF s[i] = " " THEN SkipBlank(s, i + 1) ELSE i

\* Index just after the run of non-blank characters of s that starts at i.
RECURSIVE SkipField(_, _)
SkipField(s, i) ==
    IF i > Len(s) THEN i
    ELSE IF s[i] # " " THEN SkipField(s, i + 1) ELSE i

\* line.split()[0]: the first whitespace-separated field.
FirstField(s) ==
    LET a == SkipBlank(s, 1)
        b == SkipField(s, a)
    IN  SubSeq(s, a, b - 1)

\* ------------------------------------------------------------------ events

\* One entry of the history of external effects: op names the command, system
\* call or entered helper, arg its argument.
Ev(op, arg) == [op |-> op, arg |-> arg]

\* A returned value or a raised exception, with the events that led to it.
Returned(value, events) == [raised |-> FALSE, exc |-> "", value |-> value, events |-> events]
Raised(exc, events) == [raised |-> TRUE, exc |-> exc, value |-> FALSE, events |-> events]

\* --------------------------------------------------------- Process Locator

\* The scan of the ps listing from line i on.  A listing line is [pid, cmd]:
\* the text of the line is the pid's digits, a blank and cmd, so "openvpn" is
\* in the line exactly when it is in cmd.
RECURSIVE ScanListing(_, _, _)
ScanListing(search_str, out, i) ==
    IF i > Len(out) THEN None
    ELSE IF ~Contains(out[i].cmd, OPENVPN) THEN ScanListing(search_str, out, i + 1)
    ELSE IF Contains(Lower(out[i].cmd), search_str) THEN out[i].pid
    ELSE ScanListing(search_str, out, i + 1)

get_pid_by_str(search_str, out) == ScanListing(search_str, out, 1)

\* ------------------------------------------------------ Connectivity Prober

check_connection(remote_host, pingRc) ==
    Returned(pingRc = 0, <<Ev("ping", remote_host)>>)

\* get_route turning a trace that cannot run into "no first hop".
get_route_Swallow(remote_host, trace) ==
    LET events == <<Ev("traceroute", remote_host)>>
    IN  IF ~trace.ok \/ Len(trace.out) < 2 THEN Returned(<<>>, events)
        ELSE Returned(trace.out[2], events)

\* trace is what running the trace utility gives: ok = FALSE when it cannot be
\* run or exits non-zero (check_output raises OSError or CalledProcessError,
\* here "ToolFailure"), out its output split on blanks.
get_route(remote_host, trace) ==
    LET events == <<Ev("traceroute", remote_host)>>
    IN  IF ~trace.ok THEN Raised("ToolFailure", events)
        ELSE IF Len(trace.out) < 2 THEN Raised("IndexError", events)
        ELSE Returned(trace.out[2], events)

\* run_vpn_checks without the early return after a failed ping.
run_vpn_checks_NoShortCircuit(remote_host, route_prefix, pingRc, trace) ==
    LET ping == check_connection(remote_host, pingRc)
    IN  IF route_prefix # <<>> THEN
            LET route == get_route(DEFAULT_REMOTE_HOST, trace)
            IN  IF route.raised THEN Raised(route.exc, ping.events \o route.events)
                ELSE Returned(ping.value /\ StartsWith(route.value, route_prefix),
                              ping.events \o route.events)
        ELSE Returned(ping.value, ping.events)

\* route_prefix = <<>> stands for an unset (None) or empty prefix: both are falsy.
run_vpn_checks(remote_host, route_prefix, pingRc, trace) ==
    LET ping == check_connection(remote_host, pingRc)
    IN  IF ~ping.value THEN Returned(FALSE, ping.events)
        ELSE IF route_prefix # <<>> THEN
            LET route == get_route(DEFAULT_REMOTE_HOST, trace)
            IN  IF route.raised THEN Raised(route.exc, ping.events \o route.events)
                ELSE IF ~StartsWith(route.value, route_prefix)
                     THEN Returned(FALSE, ping.events \o route.events)
                     ELSE Returned(TRUE, ping.events \o route.events)
        ELSE Returned(TRUE, ping.events)

\* ------------------------------------------------------------ Route Cleaner

\* The deletes issued for lines i.. of the routing table, in table order.
RECURSIVE DeleteEvents(_, _, _)
DeleteEvents(iface, table, i) ==
    IF i > Len(table) THEN <<>>
    ELSE (IF Contains(table[i], iface)
          THEN <<Ev("route_delete", FirstField(table[i]))>>
          ELSE <<>>) \o DeleteEvents(iface, table, i + 1)

\* The routing table afterwards: a line goes when its delete exited with zero.
RECURSIVE TableAfter(_, _, _, _)
TableAfter(iface, table, rcs, i) ==
    IF i > Len(table) THEN <<>>
    ELSE (IF Contains(table[i], iface) /\ rcs[i] = 0
          THEN <<>>
          ELSE <<table[i]>>) \o TableAfter(iface, table, rcs, i + 1)

\* The deletes of a Route Cleaner that gives up at the first failed delete.
RECURSIVE DeleteEventsUntilFailure(_, _, _, _)
DeleteEventsUntilFailure(iface, table, rcs, i) ==
    IF i > Len(table) THEN <<>>
    ELSE IF ~Contains(table[i], iface)
         THEN DeleteEventsUntilFailure(iface, table, rcs, i + 1)
         ELSE <<Ev("route_delete", FirstField(table[i]))>>
              \o (IF rcs[i] # 0 THEN <<>>
                  ELSE DeleteEventsUntilFailure(iface, table, rcs, i + 1))

\* delete_iface_routes stopping, and reporting failure, at a failed delete.
delete_iface_routes_StopOnFailure(iface, netstatOk, table, rcs) ==
    LET enter == <<Ev("clean", iface), Ev("netstat", "-rn")>>
    IN  IF ~netstatOk THEN Raised("ToolFailure", enter)
        ELSE Returned(\A i \in 1..Len(table) : rcs[i] = 0,
                      enter \o DeleteEventsUntilFailure(iface, table, rcs, 1))

\* netstatOk: whether netstat could be run; rcs[i]: exit status of the delete
\* for line i of the table.
delete_iface_routes(iface, netstatOk, table, rcs) ==
    LET enter == <<Ev("clean", iface), Ev("netstat", "-rn")>>
    IN  IF ~netstatOk THEN Raised("ToolFailure", enter)
        ELSE Returned(TRUE, enter \o DeleteEvents(iface, table, 1))

\* ------------------------------------------------------------- VPN Launcher

\* run_vpn reporting success whatever the bring-up script's exit status.
run_vpn_IgnoreStatus(iface, netstatOk, table, rcs, upRc) ==
    LET cleaned == delete_iface_routes(iface, netstatOk, table, rcs)
    IN  IF cleaned.raised THEN cleaned
        ELSE IF ~cleaned.value THEN Returned(FALSE, cleaned.events)
        ELSE Returned(TRUE, cleaned.events \o <<Ev("netstart", iface)>>)

run_vpn(iface, netstatOk, table, rcs, upRc) ==
    LET cleaned == delete_iface_routes(iface, netstatOk, table, rcs)
    IN  IF cleaned.raised THEN cleaned
        ELSE IF ~cleaned.value THEN Returned(FALSE, cleaned.events)
        ELSE IF upRc # 0
             THEN Returned(FALSE, cleaned.events \o <<Ev("netstart", iface)>>)
             ELSE Returned(TRUE, cleaned.events \o <<Ev("netstart", iface)>>)

\* ------------------------------------------------------- Process Terminator

\* kill_vpn_client returning from the except clause, without the delay.
kill_vpn_client_NoGraceWhenGone(vpnclient_pid, exists) ==
    IF vpnclient_pid = None
    THEN Raised("TypeError", <<>>)
    ELSE IF ~exists
    THEN Returned(TRUE, <<Ev("kill", vpnclient_pid)>>)
    ELSE Returned(TRUE, <<Ev("kill", vpnclient_pid), Ev("sleep", GRACE_DELAY)>>)

\* exists: whether a process with that pid exists when the signal is sent
\* (os.kill raises ProcessLookupError when none does, which is caught).
kill_vpn_client(vpnclient_pid, exists) ==
    IF vpnclient_pid = None
    THEN Raised("TypeError", <<>>)
    ELSE Returned(TRUE, <<Ev("kill", vpnclient_pid), Ev("sleep", GRACE_DELAY)>>)

\* ------------------------------------------------------------ Config Parser

\* Index of the last non-blank character of s at or before i (0 if none).
RECURSIVE TrimEnd(_, _)
TrimEnd(s, i) ==
    IF i < 1 THEN 0
    ELSE IF s[i] = " " THEN TrimEnd(s, i - 1) ELSE i

\* str.strip()
Strip(s) == SubSeq(s, SkipBlank(s, 1), TrimEnd(s, Len(s)))

\* Index of the first blank of s at or after i (0 if none).
RECURSIVE FirstSpace(_, _)
FirstSpace(s, i) ==
    IF i > Len(s) THEN 0
    ELSE IF s[i] = " " THEN i ELSE FirstSpace(s, i + 1)

\* A value of the config dict: text, or the boolean True of a flag directive.
Text(s) == [flag |-> FALSE, text |-> s]
Flag == [flag |-> TRUE, text |-> <<>>]

\* config[key] = value
SetKey(cfg, key, value) ==
    [k \in (DOMAIN cfg) \cup {key} |-> IF k = key THEN value ELSE cfg[k]]

\* A parser that skips blank lines only.
skip_line_BlankOnly(line) == line = <<>>

\* line.startswith("#") or not line
skip_line(line) == line = <<>> \/ line[1] = "#"

\* TAG_OUT_PATTERN.match(line): ^</(.*)>$
tag_out(line) ==
    /\ Len(line) >= 3
    /\ line[1] = "<" /\ line[2] = "/"
    /\ line[Len(line)] = ">"

\* TAG_IN_PATTERN.match(line): ^<(.*)>$
tag_in(line) ==
    /\ Len(line) >= 2
    /\ line[1] = "<"
    /\ line[Len(line)] = ">"

\* line_re.group(1) of a TAG_IN_PATTERN match
tag_in_name(line) == SubSeq(line, 2, Len(line) - 1)

\* An opening tag that keeps the value its name already holds.
enter_tag_KeepValue(cfg, name) ==
    IF name \in DOMAIN cfg THEN cfg ELSE SetKey(cfg, name, Text(<<>>))

\* config[in_tag] = str()
enter_tag(cfg, name) == SetKey(cfg, name, Text(<<>>))

\* Content lines of a block joined by a blank.
append_content_Separated(cfg, name, line) ==
    SetKey(cfg, name,
           Text(IF cfg[name].text = <<>> THEN line
                ELSE cfg[name].text \o <<" ">> \o line))

\* config[in_tag] += line
append_content(cfg, name, line) ==
    SetKey(cfg, name, Text(cfg[name].text \o line))

\* A directive line that leaves a directive already set as it is.
set_directive_KeepFirst(cfg, line) ==
    LET sp == FirstSpace(line, 1)
        key == IF sp = 0 THEN line ELSE SubSeq(line, 1, sp - 1)
    IN  IF key \in DOMAIN cfg THEN cfg
        ELSE IF sp = 0 THEN SetKey(cfg, line, Flag)
        ELSE SetKey(cfg, key, Text(SubSeq(line, sp + 1, Len(line))))

\* A directive line whose flag form yields empty text instead of True.
set_directive_FlagAsText(cfg, line) ==
    LET sp == FirstSpace(line, 1)
    IN  IF sp = 0 THEN SetKey(cfg, line, Text(<<>>))
        ELSE SetKey(cfg, SubSeq(line, 1, sp - 1),
                    Text(SubSeq(line, sp + 1, Len(line))))

\* key, value = line, True  or  line.split(" ", 1);  config[key] = value
set_directive(cfg, line) ==
    LET sp == FirstSpace(line, 1)
    IN  IF sp = 0 THEN SetKey(cfg, line, Flag)
        ELSE SetKey(cfg, SubSeq(line, 1, sp - 1),
                    Text(SubSeq(line, sp + 1, Len(line))))

\* One pass of the loop over the lines, for the line raw.  st.lines is the
\* history of the lines read; st.error names an exception of the += on a
\* missing or non-text entry.
parse_line(st, raw) ==
    LET line == Strip(raw)
        read == [st EXCEPT !.lines = Append(@, raw)]
    IN  IF skip_line(line) THEN read
        ELSE IF tag_out(line) THEN [read EXCEPT !.in_tag = <<>>]
        ELSE IF tag_in(line)
             THEN [read EXCEPT !.in_tag = <<tag_in_name(line)>>,
                               !.config = enter_tag(@, tag_in_name(line))]
        ELSE IF st.in_tag # <<>>
             THEN IF st.in_tag[1] \notin DOMAIN st.config
                  THEN [read EXCEPT !.error = "KeyError"]
                  ELSE IF st.config[st.in_tag[1]].flag
                  THEN [read EXCEPT !.error = "TypeError"]
                  ELSE [read EXCEPT !.config = append_content(@, st.in_tag[1], line)]
        ELSE [read EXCEPT !.config = set_directive(@, line)]

\* ------------------------------------------------------------------ inputs

\* The value of the dev directive in the configuration files that have one.
Tun0 == <<"t", "u", "n", "0">>

\* os.path.basename(args.ovpn_file): the locator's search string.
ConfigNames == { <<"v", "1">>, <<"V", "1">> }

\* The configuration file: missing, without a dev directive, with one.
OvpnFiles ==
    { [exists |-> FALSE, config |-> <<>>],
      [exists |-> TRUE, config |-> <<>>],
      [exists |-> TRUE, config |-> [k \in {"dev"} |-> Tun0]] }

RemoteHosts == { DEFAULT_REMOTE_HOST, "8.8.8.8" }

\* args.route_prefix; <<>> is "not given".
RoutePrefixes == { <<>>, <<"1", "0", ".">>, <<"1", "9", "2", ".">> }

Proc(pid, cmd) == [pid |-> pid, cmd |-> cmd]
CmdLower == <<"o", "p", "e", "n", "v", "p", "n", " ", "v", "1">>
CmdUpper == <<"o", "p", "e", "n", "v", "p", "n", " ", "V", "1">>
CmdOther == <<"o", "p", "e", "n", "v", "p", "n", " ", "x">>
CmdSshd == <<"s", "s", "h", "d", " ", "v", "1">>

\* What `ps -A -o pid,command` may list when the program starts.
Listings ==
    { <<>>,
      <<Proc(2, CmdSshd)>>,
      <<Proc(3, CmdOther), Proc(5, CmdLower)>>,
      <<Proc(5, CmdUpper)>>,
      <<Proc(2, CmdSshd), Proc(7, CmdLower), Proc(5, CmdLower)>> }

\* The client process a successful bring-up starts.
LaunchedProc(name) == Proc(9, <<"o", "p", "e", "n", "v", "p", "n", " ">> \o name)

\* What `netstat -rn -finet` may print when the program starts.
RouteTables ==
    { <<>>,
      << <<"1", "0", ".", "8", " ", "t", "u", "n", "0">>, <<"d", "e", "f", "a", "u", "l", "t", " ", "e", "m", "0">> >>,
      << <<"0", "/", "1", " ", "t", "u", "n", "0">>, <<"1", "0", ".", "8", " ", "t", "u", "n", "0">>, <<"1", "0", ".", "9", " ", "t", "u", "n", "1">> >> }

\* What one run of `traceroute -m 1 host` may give.
TraceOutcomes ==
    { [ok |-> FALSE, out |-> <<>>],
      [ok |-> TRUE, out |-> <<>>],
      [ok |-> TRUE, out |-> << <<"1">>, <<"1", "0", ".", "0", ".", "0", ".", "1">> >>],
      [ok |-> TRUE, out |-> << <<"1">>, <<"1", "9", "2", ".", "0", ".", "0", ".", "1">> >>] }

\* The lines a configuration file is made of.
DevTun0Line == <<"d", "e", "v", " ", "t", "u", "n", "0">>
DevTun1Line == <<"d", "e", "v", " ", "t", "u", "n", "1">>
OpenCa == <<"<", "c", "a", ">">>
CloseCa == <<"<", "/", "c", "a", ">">>
OpenDev == <<"<", "d", "e", "v", ">">>
Line1 == <<"L", "1">>
Line2Padded == <<" ", "L", "2", " ">>
CommentLine == <<" ", "#", " ", "c">>
LinePool ==
    { DevTun0Line, DevTun1Line, OpenCa, CloseCa, OpenDev, Line1, Line2Padded,
      CommentLine, <<>> }

\* ------------------------------------------------------------------- state

VARIABLES
    pc,             \* position of main
    ovpn,           \* the configuration file at args.ovpn_file
    config,         \* the parsed configuration
    config_name,    \* basename of args.ovpn_file
    remote_host,    \* args.remote_host
    route_prefix,   \* args.route_prefix
    vpn_client_pid, \* result of the last process lookup
    ret,            \* what main returned: <<>> until it returns, then <<code>>
    exc,            \* the exception that left main, "" if none
    iter,           \* passes through the head of the while loop
    procs,          \* the process table
    routes,         \* the routing table
    lookup,         \* the listing and the result of the last process lookup
    probe,          \* the inputs and the result of the last probe
    launch,         \* the inputs and the result of the last launch
    cleaned,        \* the inputs and the result of the last Route Cleaner run
    killed,         \* the inputs and the result of the last kill_vpn_client
    parser,         \* the state of parse_ovpn_config's loop over the lines
    log             \* every external effect so far, in order

vars == <<pc, ovpn, config, config_name, remote_host, route_prefix,
          vpn_client_pid, ret, exc, iter, procs, routes, lookup, probe, launch,
          cleaned, killed, parser, log>>

args == <<ovpn, config_name, remote_host, route_prefix>>

NoLookup == [done |-> FALSE, out |-> <<>>, pid |-> None]
NoProbe == [done |-> FALSE, pingRc |-> 0, trace |-> [ok |-> FALSE, out |-> <<>>],
            raised |-> FALSE, healthy |-> FALSE, events |-> <<>>]
NoLaunch == [done |-> FALSE, upRc |-> 0, raised |-> FALSE, ok |-> FALSE,
             events |-> <<>>]
NoClean == [done |-> FALSE, iface |-> <<>>, table |-> <<>>, rcs |-> <<>>,
            raised |-> FALSE, ok |-> FALSE, events |-> <<>>]
NoKill == [done |-> FALSE, pid |-> None, existed |-> FALSE, raised |-> FALSE,
           events |-> <<>>]

\* The parser's state before the first line: an empty dict, in_tag = None
\* (in_tag is <<>> for None and <<name>> for an open block), no error.
ParserStart == [lines |-> <<>>, config |-> <<>>, in_tag |-> <<>>, error |-> ""]

Init ==
    /\ pc = "parse"
    /\ ovpn \in OvpnFiles
    /\ config = <<>>
    /\ config_name \in ConfigNames
    /\ remote_host \in RemoteHosts
    /\ route_prefix \in RoutePrefixes
    /\ vpn_client_pid = None
    /\ ret = <<>>
    /\ exc = ""
    /\ iter = 0
    /\ procs \in Listings
    /\ routes \in RouteTables
    /\ lookup = NoLookup
    /\ probe = NoProbe
    /\ launch = NoLaunch
    /\ cleaned = NoClean
    /\ killed = NoKill
    /\ parser = ParserStart
    /\ log = <<>>

\* ----------------------------------------------------------------- actions

Pids(table) == { table[i].pid : i \in 1..Len(table) }

RECURSIVE WithoutPid(_, _)
WithoutPid(table, pid) ==
    IF table = <<>> THEN <<>>
    ELSE (IF Head(table).pid = pid THEN <<>> ELSE <<Head(table)>>)
         \o WithoutPid(Tail(table), pid)

\* The exit statuses the deletes of one Route Cleaner run may have: rcs[i] is
\* the status of the delete for line i (0 where no delete is issued).
DeleteStatuses(iface, table) ==
    { rcs \in [1..Len(table) -> {0, 1}] :
        \A i \in 1..Len(table) : ~Contains(table[i], iface) => rcs[i] = 0 }

\* An exception leaves main: nothing catches it.
Raise(e, events) ==
    /\ pc' = "raised"
    /\ exc' = e
    /\ log' = log \o events

\* main returns code.
Return(code, events) ==
    /\ pc' = "done"
    /\ ret' = <<code>>
    /\ log' = log \o events

\* main launching whether or not the lookup found a process.
main_after_lookup_AlwaysLaunch(pid) == "launch"

\* Where main goes after the process lookup.
main_after_lookup(pid) ==
    IF pid = None \/ pid = 0 THEN "launch" ELSE "probe"

\* main carrying on after a launch that reported failure.
main_after_launch_IgnoreFailure(ok) == "settle"

\* main probing straight after a successful launch, with no settle delay.
main_after_launch_NoSettle(ok) ==
    IF ~ok THEN "return_1" ELSE "probe"

\* Where main goes after run_vpn returned ok.
main_after_launch(ok) ==
    IF ~ok THEN "return_1" ELSE "settle"

\* main taking every probe result for a healthy one.
main_after_checks_AlwaysGood(healthy) == "return_0"

\* Where main goes after run_vpn_checks returned healthy.
main_after_checks(healthy) ==
    IF healthy THEN "return_0" ELSE "kill"

\* main carrying on with an empty configuration when the file is missing.
Main_Parse_IgnoreMissing ==
    /\ pc = "parse"
    /\ pc' = "locate"
    /\ config' = ovpn.config
    /\ UNCHANGED <<ret, exc, log>>
    /\ UNCHANGED <<args, vpn_client_pid, iter, procs, routes, lookup, probe, launch>>
    /\ UNCHANGED <<cleaned, killed, parser>>

\* config = parse_ovpn_config(args.ovpn_file), FileNotFoundError handled.
Main_Parse ==
    /\ pc = "parse"
    /\ IF ~ovpn.exists
       THEN /\ Return(ENOENT, <<>>)
            /\ UNCHANGED <<config, exc>>
       ELSE /\ pc' = "locate"
            /\ config' = ovpn.config
            /\ UNCHANGED <<ret, exc, log>>
    /\ UNCHANGED <<args, vpn_client_pid, iter, procs, routes, lookup, probe, launch>>
    /\ UNCHANGED <<cleaned, killed, parser>>

\* vpn_client_pid = get_pid_by_str(config_name), and the test that follows.
Main_Locate ==
    /\ pc = "locate"
    /\ iter < MaxIter
    /\ iter' = iter + 1
    /\ \E psOk \in BOOLEAN :
        IF ~psOk
        THEN /\ Raise("ToolFailure", <<Ev("ps_failed", None)>>)
             /\ UNCHANGED <<vpn_client_pid, ret, lookup>>
        ELSE LET pid == get_pid_by_str(config_name, procs)
             IN  /\ vpn_client_pid' = pid
                 /\ lookup' = [done |-> TRUE, out |-> procs, pid |-> pid]
                 /\ log' = log \o <<Ev("ps", pid)>>
                 /\ pc' = main_after_lookup(pid)
                 /\ UNCHANGED <<ret, exc>>
    /\ UNCHANGED <<args, config, procs, routes, probe, launch>>
    /\ UNCHANGED <<cleaned, killed, parser>>

\* run_vpn(config['dev']) and the test of its result.
Main_Launch ==
    /\ pc = "launch"
    /\ IF "dev" \notin DOMAIN config
       THEN /\ Raise("KeyError", <<>>)
            /\ UNCHANGED <<ret, procs, routes, launch, cleaned>>
       ELSE \E netstatOk \in BOOLEAN, upRc \in {0, 1} :
            \E rcs \in DeleteStatuses(config["dev"], routes) :
               LET r == run_vpn(config["dev"], netstatOk, routes, rcs, upRc)
                   up == Len(r.events) > 0 /\ r.events[Len(r.events)].op = "netstart"
               IN  /\ launch' = [done |-> TRUE, upRc |-> upRc,
                                 raised |-> r.raised, ok |-> r.value,
                                 events |-> r.events]
                   /\ cleaned' =
                        LET c == delete_iface_routes(config["dev"], netstatOk,
                                                     routes, rcs)
                        IN  [done |-> TRUE, iface |-> config["dev"],
                             table |-> routes, rcs |-> rcs, raised |-> c.raised,
                             ok |-> c.value,
                             events |-> SelectSeq(r.events,
                                            LAMBDA e : e.op # "netstart")]
                   /\ routes' = IF netstatOk
                                THEN TableAfter(config["dev"], routes, rcs, 1)
                                ELSE routes
                   /\ procs' = IF up /\ upRc = 0
                               THEN Append(procs, LaunchedProc(config_name))
                               ELSE procs
                   /\ IF r.raised
                      THEN Raise(r.exc, r.events) /\ UNCHANGED ret
                      ELSE IF main_after_launch(r.value) = "return_1"
                      THEN Return(EXIT_LAUNCH_FAILED, r.events) /\ UNCHANGED exc
                      ELSE /\ pc' = main_after_launch(r.value)
                           /\ log' = log \o r.events
                           /\ UNCHANGED <<ret, exc>>
    /\ UNCHANGED <<args, config, vpn_client_pid, iter, lookup, probe>>
    /\ UNCHANGED <<killed, parser>>

\* time.sleep(30) after a successful launch.
Main_Settle ==
    /\ pc = "settle"
    /\ pc' = "probe"
    /\ log' = Append(log, Ev("sleep", SETTLE_DELAY))
    /\ UNCHANGED <<args, config, vpn_client_pid, ret, exc, iter, procs, routes,
                   lookup, probe, launch, cleaned, killed, parser>>

\* run_vpn_checks(args.remote_host, args.route_prefix) and the test of its result.
Main_Probe ==
    /\ pc = "probe"
    /\ \E pingRc \in {0, 1}, trace \in TraceOutcomes :
        LET r == run_vpn_checks(remote_host, route_prefix, pingRc, trace)
        IN  /\ probe' = [done |-> TRUE, pingRc |-> pingRc, trace |-> trace,
                         raised |-> r.raised, healthy |-> r.value,
                         events |-> r.events]
            /\ IF r.raised
               THEN Raise(r.exc, r.events) /\ UNCHANGED ret
               ELSE IF main_after_checks(r.value) = "return_0"
               THEN Return(0, r.events) /\ UNCHANGED exc
               ELSE /\ pc' = main_after_checks(r.value)
                    /\ log' = log \o r.events
                    /\ UNCHANGED <<ret, exc>>
    /\ UNCHANGED <<args, config, vpn_client_pid, iter, procs, routes, lookup,
                   launch, cleaned, killed, parser>>

\* kill_vpn_client(vpn_client_pid); a signalled process may or may not have
\* exited when the grace delay is over.
Main_Kill ==
    /\ pc = "kill"
    /\ LET exists == vpn_client_pid \in Pids(procs)
           r == kill_vpn_client(vpn_client_pid, exists)
       IN  /\ killed' = [done |-> TRUE, pid |-> vpn_client_pid, existed |-> exists,
                         raised |-> r.raised, events |-> r.events]
           /\ IF r.raised
              THEN /\ Raise(r.exc, r.events)
                   /\ UNCHANGED <<ret, procs>>
              ELSE /\ pc' = "clean"
                   /\ log' = log \o r.events
                   /\ \E exits \in BOOLEAN :
                        procs' = IF exists /\ exits
                                 THEN WithoutPid(procs, vpn_client_pid)
                                 ELSE procs
                   /\ UNCHANGED <<ret, exc>>
    /\ UNCHANGED <<args, config, vpn_client_pid, iter, routes, lookup, probe,
                   launch, cleaned, parser>>

\* delete_iface_routes(config["dev"]) at the end of an unhealthy iteration.
Main_Clean ==
    /\ pc = "clean"
    /\ IF "dev" \notin DOMAIN config
       THEN /\ Raise("KeyError", <<>>)
            /\ UNCHANGED <<routes, cleaned>>
       ELSE \E netstatOk \in BOOLEAN :
            \E rcs \in DeleteStatuses(config["dev"], routes) :
               LET r == delete_iface_routes(config["dev"], netstatOk, routes, rcs)
               IN  /\ cleaned' = [done |-> TRUE, iface |-> config["dev"],
                                  table |-> routes, rcs |-> rcs,
                                  raised |-> r.raised, ok |-> r.value,
                                  events |-> r.events]
                   /\ routes' = IF netstatOk
                                THEN TableAfter(config["dev"], routes, rcs, 1)
                                ELSE routes
                   /\ IF r.raised
                      THEN Raise(r.exc, r.events)
                      ELSE /\ pc' = "locate"
                           /\ log' = log \o r.events
                           /\ exc' = exc
    /\ UNCHANGED <<args, config, vpn_client_pid, ret, iter, procs, lookup, probe,
                   launch, killed, parser>>

\* The located client exits on its own while main is between the lookup and
\* the signal.
ClientExits ==
    /\ pc \in {"probe", "kill"}
    /\ vpn_client_pid \in Pids(procs)
    /\ procs' = WithoutPid(procs, vpn_client_pid)
    /\ UNCHANGED <<pc, args, config, vpn_client_pid, ret, exc, iter, routes,
                   lookup, probe, launch, cleaned, killed, parser, log>>

Next ==
    \/ Main_Parse
    \/ Main_Locate
    \/ Main_Launch
    \/ Main_Settle
    \/ Main_Probe
    \/ Main_Kill
    \/ Main_Clean
    \/ ClientExits

Spec == Init /\ [][Next]_vars

\* ------------------------------------------ parse_ovpn_config on its own

\* parse_ovpn_config reads the next line of a file; the file may end after
\* any line.
Parse_Line ==
    /\ pc = "parsing"
    /\ parser.error = ""
    /\ Len(parser.lines) < MaxLines
    /\ \E raw \in LinePool : parser' = parse_line(parser, raw)
    /\ UNCHANGED <<pc, args, config, vpn_client_pid, ret, exc, iter, procs,
                   routes, lookup, probe, launch, cleaned, killed, log>>

InitParse ==
    /\ pc = "parsing"
    /\ ovpn = [exists |-> TRUE, config |-> <<>>]
    /\ config = <<>>
    /\ config_name = <<"v", "1">>
    /\ remote_host = DEFAULT_REMOTE_HOST
    /\ route_prefix = <<>>
    /\ vpn_client_pid = None
    /\ ret = <<>>
    /\ exc = ""
    /\ iter = 0
    /\ procs = <<>>
    /\ routes = <<>>
    /\ lookup = NoLookup
    /\ probe = NoProbe
    /\ launch = NoLaunch
    /\ cleaned = NoClean
    /\ killed = NoKill
    /\ parser = ParserStart
    /\ log = <<>>

NextParse == Parse_Line

SpecParse == InitParse /\ [][NextParse]_vars

\* ------------------------------------------------------- history helpers

Last(seq) == seq[Len(seq)]

HasOp(events, op) == \E i \in 1..Len(events) : events[i].op = op

\* Index of the last event of the log named op (0 if there is none).
LastIndexOf(op) ==
    LET S == { i \in 1..Len(log) : log[i].op = op }
    IN  IF S = {} THEN 0 ELSE CHOOSE i \in S : \A j \in S : j <= i

\* The last probe returned unhealthy.
LastProbeUnhealthy == probe.done /\ ~probe.raised /\ ~probe.healthy

\* ------------------------------------------------------------------ claims

\* C1: in every iteration whose probe reports unhealthy (the config holding a
\* dev directive), whether the client was found or was launched in that
\* iteration, main sends the termination signal, then runs Route Cleaner on
\* the interface of the dev directive, then looks the process up again; the
\* iteration does not end in an error of the program's own (a Route Cleaner
\* that cannot run netstat is the environment's failure).
C1_UnhealthyIterationTearsDown ==
    (LastProbeUnhealthy /\ "dev" \in DOMAIN config) =>
        /\ pc = "raised" => exc = "ToolFailure"
        /\ pc \notin {"kill", "clean", "raised"} =>
              LET k == LastIndexOf("ping")
                  j == IF k < Len(log) /\ log[k + 1].op = "traceroute"
                       THEN k + 1 ELSE k
              IN  /\ Len(log) >= j + 3
                  /\ log[j + 1].op = "kill"
                  /\ log[j + 2].op = "sleep"
                  /\ log[j + 3].op = "clean"
                  /\ log[j + 3].arg = config["dev"]

\* C2: between any two consecutive probes there is a teardown (terminate, then
\* route clean) and a fresh launch.
C2_RelaunchBetweenProbes ==
    \A i, j \in 1..Len(log) :
        ( /\ i < j
          /\ log[i].op = "ping"
          /\ log[j].op = "ping"
          /\ \A m \in (i + 1)..(j - 1) : log[m].op # "ping" )
        => \E a, b, c \in (i + 1)..(j - 1) :
              /\ a < b /\ b < c
              /\ log[a].op = "kill"
              /\ log[b].op = "clean"
              /\ log[c].op = "netstart"

C4_TraceTargetsRemoteHost ==
    \A i \in 1..Len(log) :
        log[i].op = "traceroute" =>
            /\ log[i].arg = remote_host
            /\ i > 1 /\ log[i - 1].op = "ping" /\ log[i - 1].arg = log[i].arg

\* C5: the probe reports healthy exactly when the ping succeeded and either no
\* route prefix is configured or the traced first hop starts with the prefix;
\* the trace runs in a probe exactly when the ping succeeded and a prefix is
\* configured.
C5_ProbeResult ==
    probe.done =>
        /\ HasOp(probe.events, "traceroute")
              = (probe.pingRc = 0 /\ route_prefix # <<>>)
        /\ ~probe.raised =>
              ( probe.healthy
                = ( /\ probe.pingRc = 0
                    /\ \/ route_prefix = <<>>
                       \/ StartsWith(probe.trace.out[2], route_prefix) ) )

C5_Witness ==
    /\ probe.done /\ ~probe.raised /\ ~probe.healthy
    /\ probe.pingRc = 0
    /\ route_prefix # <<>>

\* C6: a trace utility that cannot be run makes the probe raise: the probe
\* reports neither healthy nor unhealthy, the error leaves main, and after
\* it main sends no signal, deletes no route, launches nothing and does not
\* return 0.
C6_TraceFailurePropagates ==
    ( /\ probe.done
      /\ HasOp(probe.events, "traceroute")
      /\ ~probe.trace.ok ) =>
        /\ probe.raised
        /\ pc = "raised"
        /\ exc = "ToolFailure"
        /\ ret = <<>>
        /\ Last(log).op = "traceroute"

C6_Witness ==
    /\ probe.done /\ ~probe.trace.ok /\ HasOp(probe.events, "traceroute")
    /\ pc = "raised"
    /\ launch.done

\* C7: when the lookup finds no process and the launch reports failure, main
\* returns 1 at once: the failed bring-up is the last effect of the run, so no
\* settle delay, probe, signal or Route Cleaner run follows it.
C7_LaunchFailureExits ==
    (launch.done /\ ~launch.raised /\ ~launch.ok) =>
        /\ lookup.pid = None
        /\ pc = "done"
        /\ ret = <<EXIT_LAUNCH_FAILED>>
        /\ Last(log).op = "netstart"
        /\ LET n == Len(log)
               m == Len(launch.events)
           IN  /\ n > m
               /\ SubSeq(log, n - m + 1, n) = launch.events
               /\ log[n - m].op = "ps" /\ log[n - m].arg = None

C7_Witness ==
    /\ launch.done /\ ~launch.raised /\ ~launch.ok
    /\ HasOp(log, "route_delete")

\* C8: main reaches the launch exactly in the iterations whose lookup found no
\* process; a successful launch is followed by the 30-unit settle delay and
\* only then by the probe; a found process is followed by the probe with no
\* launch and no delay.
C8_LaunchAndSettle ==
    /\ (pc = "launch") = (Len(log) > 0 /\ Last(log).op = "ps"
                          /\ Last(log).arg = None /\ pc # "raised")
    /\ pc = "launch" => vpn_client_pid = None
    /\ pc = "settle" => (launch.done /\ launch.ok /\ Last(log).op = "netstart")
    /\ \A i \in 1..Len(log) :
        /\ (log[i].op = "ps" /\ log[i].arg = None /\ i < Len(log))
              => log[i + 1].op = "clean"
        /\ (log[i].op = "ps" /\ log[i].arg # None)
              => IF i < Len(log) THEN log[i + 1].op = "ping"
                 ELSE pc \in {"probe", "raised"}
        /\ (log[i].op = "netstart" /\ i < Len(log))
              => /\ log[i + 1].op = "sleep" /\ log[i + 1].arg = SETTLE_DELAY
                 /\ i + 1 < Len(log) => log[i + 2].op = "ping"
        /\ (log[i].op = "sleep" /\ log[i].arg = SETTLE_DELAY)
              => (i > 1 /\ log[i - 1].op = "netstart")
        /\ log[i].op = "ping"
              => /\ i > 1
                 /\ \/ log[i - 1].op = "ps" /\ log[i - 1].arg # None
                    \/ log[i - 1].op = "sleep" /\ log[i - 1].arg = SETTLE_DELAY
        /\ log[i].op = "netstart"
              => \E j \in 1..(i - 1) :
                    /\ log[j].op = "ps" /\ log[j].arg = None
                    /\ \A m \in (j + 1)..(i - 1) :
                          log[m].op \in {"clean", "netstat", "route_delete"}

C8_Witness ==
    /\ pc = "probe"
    /\ launch.done /\ launch.ok
    /\ Last(log).op = "sleep" /\ Last(log).arg = SETTLE_DELAY

\* The Process Locator as specified: the pid of the first listed process whose
\* command line names the client binary and holds the search string, letter
\* case ignored; None when there is none.
RECURSIVE FirstMatchIgnoringCase(_, _, _)
FirstMatchIgnoringCase(search_str, out, i) ==
    IF i > Len(out) THEN None
    ELSE IF /\ Contains(out[i].cmd, OPENVPN)
            /\ Contains(Lower(out[i].cmd), Lower(search_str))
         THEN out[i].pid
         ELSE FirstMatchIgnoringCase(search_str, out, i + 1)

\* C9: the lookup returns the first listed client process whose command line
\* holds the search string under case-insensitive comparison, and not found
\* when no listed process qualifies.
C9_LocatorIgnoresCase ==
    lookup.done => lookup.pid = FirstMatchIgnoringCase(config_name, lookup.out, 1)

\* C10: a launch runs Route Cleaner for its interface before any bring-up,
\* brings the interface up at most once and as its last effect, never after a
\* Route Cleaner that did not report success, and reports success exactly
\* when the bring-up exited with status zero.
C10_LaunchOrder ==
    launch.done =>
        LET ev == launch.events
        IN  /\ Len(ev) >= 2
            /\ ev[1].op = "clean" /\ ev[1].arg = config["dev"]
            /\ ev[2].op = "netstat"
            /\ \A i \in 1..Len(ev) :
                  ev[i].op = "netstart" => (i = Len(ev) /\ i > 2 /\ ev[i].arg = config["dev"])
            /\ \A i \in 3..(Len(ev) - 1) : ev[i].op = "route_delete"
            /\ launch.raised => ~HasOp(ev, "netstart")
            /\ ~launch.raised =>
                  /\ HasOp(ev, "netstart")
                  /\ launch.ok = (launch.upRc = 0)

C10_Witness ==
    /\ launch.done /\ ~launch.raised /\ launch.ok
    /\ HasOp(launch.events, "route_delete")

\* The lines of table that mention iface, as indexes in table order.
RECURSIVE MentioningLines(_, _, _)
MentioningLines(iface, table, i) ==
    IF i > Len(table) THEN <<>>
    ELSE (IF \E k \in 1..Len(table[i]) :
                 /\ k + Len(iface) - 1 <= Len(table[i])
                 /\ SubSeq(table[i], k, k + Len(iface) - 1) = iface
          THEN <<i>> ELSE <<>>) \o MentioningLines(iface, table, i + 1)

\* C11: a Route Cleaner run that could read the routing table issues exactly
\* one delete per line that mentions the interface, in table order, each for
\* the line's first blank-separated field, and none for any other line; a
\* failed delete stops nothing, and the run reports success whatever the
\* deletes' exit statuses.
C11_OneDeletePerLine ==
    (cleaned.done /\ ~cleaned.raised) =>
        LET m == MentioningLines(cleaned.iface, cleaned.table, 1)
            ev == cleaned.events
        IN  /\ cleaned.ok
            /\ Len(ev) = Len(m) + 2
            /\ ev[1].op = "clean" /\ ev[2].op = "netstat"
            /\ \A k \in 1..Len(m) :
                  /\ ev[k + 2].op = "route_delete"
                  /\ LET line == cleaned.table[m[k]]
                         f == ev[k + 2].arg
                     IN  /\ Len(f) > 0
                         /\ \A c \in 1..Len(f) : f[c] # " "
                         /\ \E a \in 0..(Len(line) - Len(f)) :
                               /\ \A c \in 1..a : line[c] = " "
                               /\ SubSeq(line, a + 1, a + Len(f)) = f
                               /\ (a + Len(f) < Len(line)
                                      => line[a + Len(f) + 1] = " ")

C11_Witness ==
    /\ cleaned.done /\ ~cleaned.raised /\ cleaned.ok
    /\ Len(cleaned.events) = 4
    /\ Len(cleaned.table) = 3
    /\ \E i \in 1..Len(cleaned.table) :
          /\ cleaned.rcs[i] # 0
          /\ \E j \in (i + 1)..Len(cleaned.table) :
                Contains(cleaned.table[j], cleaned.iface)

\* C12: kill_vpn_client on a pid whose process no longer exists does not
\* raise, and whether the process exists or not the 5-unit grace delay comes
\* after the signal and before kill_vpn_client returns, so the Route Cleaner
\* run of the teardown starts only after the delay.
C12_GraceDelay ==
    /\ (killed.done /\ killed.pid # None) =>
          /\ ~killed.raised
          /\ Len(killed.events) = 2
          /\ killed.events[1].op = "kill" /\ killed.events[1].arg = killed.pid
          /\ killed.events[2].op = "sleep" /\ killed.events[2].arg = GRACE_DELAY
    /\ pc = "clean" => (Last(log).op = "sleep" /\ Last(log).arg = GRACE_DELAY)
    /\ \A i \in 1..Len(log) :
          /\ log[i].op = "kill" =>
                /\ i < Len(log)
                /\ log[i + 1].op = "sleep" /\ log[i + 1].arg = GRACE_DELAY
          /\ log[i].op = "clean" =>
                /\ i > 1
                /\ \/ log[i - 1].op = "ps"
                   \/ /\ i > 2
                      /\ log[i - 1].op = "sleep" /\ log[i - 1].arg = GRACE_DELAY
                      /\ log[i - 2].op = "kill"

C12_Witness ==
    /\ killed.done /\ ~killed.existed /\ killed.pid # None
    /\ pc = "locate"
    /\ Last(log).op \in {"netstat", "route_delete"}

\* C13: when the configuration file does not exist main returns the OS error
\* number and the loop never starts: no process lookup, launch, probe,
\* termination signal or route delete is performed.
C13_MissingConfig ==
    ~ovpn.exists =>
        /\ pc \in {"parse", "done"}
        /\ pc = "done" => ret = <<ENOENT>>
        /\ exc = ""
        /\ iter = 0
        /\ log = <<>>
        /\ ~lookup.done /\ ~launch.done /\ ~probe.done
        /\ ~killed.done /\ ~cleaned.done

C13_Witness == ~ovpn.exists /\ pc = "done" /\ ret = <<ENOENT>>

\* Every launch so far succeeded and every probe so far reported unhealthy.
LaunchesOkProbesUnhealthy ==
    /\ launch.done => (~launch.raised /\ launch.ok)
    /\ probe.done => LastProbeUnhealthy

\* C14: the loop has no retry limit: while every launch succeeds and every
\* probe reports unhealthy it goes on restarting, and main ends only on a
\* healthy probe or on a hard error (a failed launch, a tool that cannot run,
\* a configuration it cannot use).
C14_LoopEndsOnlyHealthyOrHardError ==
    /\ pc = "done" => ret \in {<<0>>, <<EXIT_LAUNCH_FAILED>>, <<ENOENT>>}
    /\ pc = "raised" =>
          \/ exc \in {"ToolFailure", "IndexError", "KeyError"}
          \/ ~LaunchesOkProbesUnhealthy

\* C19: when the lookup finds the client and the first probe is healthy, main
\* returns 0 having launched nothing, signalled nothing, deleted no route and
\* not read the dev directive, also for a configuration without one; without
\* a dev directive no launch and no Route Cleaner run ever happens: main
\* raises KeyError where it would launch or clean routes.
C19_HealthyPathNeedsNoDev ==
    /\ (ret = <<0>> /\ iter = 1 /\ lookup.pid # None) =>
          /\ \A i \in 1..Len(log) : log[i].op \in {"ps", "ping", "traceroute"}
          /\ ~launch.done /\ ~killed.done /\ ~cleaned.done
    /\ exc = "KeyError" =>
          /\ "dev" \notin DOMAIN config
          /\ lookup.done
          /\ lookup.pid = None \/ (LastProbeUnhealthy /\ killed.done)
    /\ (ovpn.exists /\ pc # "parse" /\ "dev" \notin DOMAIN config) =>
          /\ ~launch.done /\ ~cleaned.done
          /\ \A i \in 1..Len(log) :
                log[i].op \notin {"clean", "netstat", "route_delete", "netstart"}
          /\ (lookup.done /\ lookup.pid = None) => pc \in {"launch", "raised"}
          /\ LastProbeUnhealthy => pc \in {"kill", "clean", "raised"}
          /\ pc = "done" => (ret = <<0>> /\ iter = 1 /\ lookup.pid # None)

C19_Witness ==
    /\ "dev" \notin DOMAIN config
    /\ ret = <<0>>
    /\ HasOp(log, "traceroute")

\* ------------------------------------------------ claims about the parser

DevKey == <<"d", "e", "v">>

\* A line that is blank or whose first non-blank character is '#'.
IsCommentOrBlank(raw) ==
    \/ \A i \in 1..Len(raw) : raw[i] = " "
    \/ \E i \in 1..Len(raw) :
          /\ raw[i] = "#"
          /\ \A j \in 1..(i - 1) : raw[j] = " "

\* A trimmed line of the form </name>, and one of the form <name>.
IsCloseTag(s) ==
    Len(s) >= 3 /\ SubSeq(s, 1, 2) = <<"<", "/">> /\ s[Len(s)] = ">"
IsOpenTag(s) ==
    Len(s) >= 2 /\ s[1] = "<" /\ s[Len(s)] = ">" /\ ~IsCloseTag(s)

\* A line that is neither comment, blank nor tag.
IsContent(raw) ==
    /\ ~IsCommentOrBlank(raw)
    /\ ~IsCloseTag(Strip(raw))
    /\ ~IsOpenTag(Strip(raw))

\* Line i of the file stands outside every tagged block: the last tag line
\* before it, if any, is a closing tag.
OutsideBlockAt(lines, i) ==
    LET T == { j \in 1..(i - 1) :
                 /\ ~IsCommentOrBlank(lines[j])
                 /\ (IsCloseTag(Strip(lines[j])) \/ IsOpenTag(Strip(lines[j]))) }
    IN  \/ T = {}
        \/ IsCloseTag(Strip(lines[CHOOSE j \in T : \A k \in T : k <= j]))

\* Line i is a directive line for dev, outside every tagged block.
IsDevDirectiveAt(lines, i) ==
    /\ IsContent(lines[i])
    /\ OutsideBlockAt(lines, i)
    /\ LET s == Strip(lines[i])
       IN  \/ s = DevKey
           \/ Len(s) > 3 /\ SubSeq(s, 1, 4) = DevKey \o <<" ">>

\* C15 as stated: a file that holds a directive line `dev tun0`, wherever it
\* stands and whatever the other lines, parses to config["dev"] == "tun0".
C15_AnyDevLineWins ==
    (\E i \in 1..Len(parser.lines) :
        /\ Strip(parser.lines[i]) = DevTun0Line
        /\ IsDevDirectiveAt(parser.lines, i)) =>
            /\ DevKey \in DOMAIN parser.config
            /\ parser.config[DevKey] = Text(Tun0)

\* C15 amended: a file in which a line `dev tun0` stands outside every tagged
\* block, followed by no other dev directive line outside a tagged block and
\* by no <dev> opening tag, parses to config["dev"] == "tun0".
C15_LastDevDirectiveWins ==
    \A i \in 1..Len(parser.lines) :
        ( /\ Strip(parser.lines[i]) = DevTun0Line
          /\ OutsideBlockAt(parser.lines, i)
          /\ \A j \in (i + 1)..Len(parser.lines) :
                /\ ~IsDevDirectiveAt(parser.lines, j)
                /\ Strip(parser.lines[j]) # OpenDev )
        => /\ DevKey \in DOMAIN parser.config
           /\ parser.config[DevKey] = Text(Tun0)

C15_Witness ==
    /\ Len(parser.lines) = 4
    /\ parser.lines[1] = OpenDev
    /\ parser.lines[2] = CloseCa
    /\ parser.lines[3] = DevTun1Line
    /\ parser.lines[4] = DevTun0Line
    /\ parser.config[DevKey] = Text(Tun0)

CaKey == <<"c", "a">>

\* A line that is an opening or a closing tag.
IsTagAt(lines, j) ==
    /\ ~IsCommentOrBlank(lines[j])
    /\ (IsCloseTag(Strip(lines[j])) \/ IsOpenTag(Strip(lines[j])))

\* Line j is an opening tag for name.
OpensAt(lines, j, name) ==
    /\ ~IsCommentOrBlank(lines[j])
    /\ IsOpenTag(Strip(lines[j]))
    /\ Strip(lines[j]) = <<"<">> \o name \o <<">">>

\* The part of a trimmed line before its first space (all of it if none).
KeyOf(s) ==
    LET B == { i \in 1..Len(s) : s[i] = " " }
    IN  IF B = {} THEN s
        ELSE SubSeq(s, 1, (CHOOSE i \in B : \A k \in B : i <= k) - 1)

\* Line j is a directive line for name, outside every tagged block.
DirectiveAt(lines, j, name) ==
    /\ IsContent(lines[j])
    /\ OutsideBlockAt(lines, j)
    /\ KeyOf(Strip(lines[j])) = name

\* The first tag line after line o, or one past the end of the file.
NextTagAfter(lines, o) ==
    LET T == { j \in (o + 1)..Len(lines) : IsTagAt(lines, j) }
    IN  IF T = {} THEN Len(lines) + 1
        ELSE CHOOSE j \in T : \A k \in T : j <= k

\* The trimmed content lines among lines a..b, joined with no separator.
RECURSIVE JoinContent(_, _, _)
JoinContent(lines, a, b) ==
    IF a > b THEN <<>>
    ELSE (IF IsContent(lines[a]) THEN Strip(lines[a]) ELSE <<>>)
             \o JoinContent(lines, a + 1, b)

\* C16: after each line, the value of a tagged block is the trimmed content
\* lines between its opening tag and the next tag line (the end of the file
\* while the block is still open), joined in file order with no separator;
\* lines after the closing tag add nothing to it.  The file <ca>, L1, " L2 ",
\* </ca> yields config["ca"] == "L1L2".
C16_BlockValueIsJoinedContent ==
    /\ \A o \in 1..Len(parser.lines) :
         \A name \in { tag_in_name(Strip(parser.lines[o])) } :
           ( /\ OpensAt(parser.lines, o, name)
             /\ \A j \in (o + 1)..Len(parser.lines) :
                   /\ ~OpensAt(parser.lines, j, name)
                   /\ ~DirectiveAt(parser.lines, j, name) )
           => /\ name \in DOMAIN parser.config
              /\ parser.config[name] =
                   Text(JoinContent(parser.lines, o + 1,
                                    NextTagAfter(parser.lines, o) - 1))
    /\ parser.lines = <<OpenCa, Line1, Line2Padded, CloseCa>>
         => parser.config[CaKey] = Text(<<"L", "1", "L", "2">>)

C16_Witness ==
    /\ parser.lines = <<OpenCa, Line1, Line2Padded, CloseCa>>
    /\ parser.in_tag = <<>>
    /\ parser.config[CaKey].text = <<"L", "1", "L", "2">>

\* The parser has just read one more line, and that line is raw.
ReadsLine(raw) == parser'.lines = Append(parser.lines, raw)

\* C17: reading a comment line (first non-blank character '#') or a blank
\* line changes neither the configuration (no entry created, no value
\* changed) nor the open-tag state, outside and inside an open block.
C17_CommentAndBlankLinesChangeNothing ==
    [][ \A raw \in LinePool :
          (ReadsLine(raw) /\ IsCommentOrBlank(raw)) =>
              /\ parser'.config = parser.config
              /\ parser'.in_tag = parser.in_tag
              /\ parser'.error = parser.error ]_vars

C17_Witness ==
    /\ parser.lines = <<CommentLine, OpenCa, Line1, <<>>>>
    /\ parser.in_tag = <<CaKey>>
    /\ parser.config = (CaKey :> Text(Line1))

\* The value a directive line gives its key: the remainder after the first
\* space, or true when the trimmed line has no space.
ValueOf(s) ==
    IF KeyOf(s) = s THEN Flag
    ELSE Text(SubSeq(s, Len(KeyOf(s)) + 2, Len(s)))

\* A content line read outside every block sets exactly its own directive.
DirectiveStep(raw) ==
    LET s == Strip(raw)
    IN  /\ parser'.in_tag = <<>>
        /\ DOMAIN parser'.config = DOMAIN parser.config \cup {KeyOf(s)}
        /\ parser'.config[KeyOf(s)] = ValueOf(s)
        /\ \A k \in DOMAIN parser.config \ {KeyOf(s)} :
              parser'.config[k] = parser.config[k]

\* A content line read while a block is open is appended to that block.
AppendStep(raw) ==
    LET name == parser.in_tag[1]
    IN  /\ parser'.in_tag = parser.in_tag
        /\ DOMAIN parser'.config = DOMAIN parser.config
        /\ parser'.config[name] = Text(parser.config[name].text \o Strip(raw))
        /\ \A k \in DOMAIN parser.config \ {name} :
              parser'.config[k] = parser.config[k]

\* C18: outside a tagged block a line with a space sets its directive to the
\* remainder after the first space and a line without a space sets it to
\* true; a directive given twice keeps the value of its later occurrence; a
\* file whose last block is never closed parses without error, each content
\* line after the opening tag being appended to the block.
C18_DirectivesAndUnterminatedBlock ==
    /\ [](parser.error = "")
    /\ [](\A i \in 1..Len(parser.lines) :
            \A key \in { KeyOf(Strip(parser.lines[i])) } :
              ( /\ DirectiveAt(parser.lines, i, key)
                /\ \A j \in (i + 1)..Len(parser.lines) :
                      /\ ~DirectiveAt(parser.lines, j, key)
                      /\ ~OpensAt(parser.lines, j, key) )
              => /\ key \in DOMAIN parser.config
                 /\ parser.config[key] = ValueOf(Strip(parser.lines[i])))
    /\ [][ \A raw \in LinePool :
             (ReadsLine(raw) /\ IsContent(raw)) =>
                 IF parser.in_tag = <<>> THEN DirectiveStep(raw)
                                         ELSE AppendStep(raw) ]_vars

C18_Witness ==
    /\ parser.lines = <<DevTun1Line, DevTun0Line, OpenCa, Line1>>
    /\ parser.config = (DevKey :> Text(Tun0)) @@ (CaKey :> Text(Line1))
    /\ parser.in_tag = <<CaKey>>
    /\ parser.error = ""

\* Reading a closing tag leaves no block open and the configuration as is.
CloseStep ==
    /\ parser'.in_tag = <<>>
    /\ parser'.config = parser.config

\* Reading an opening tag makes its name the open block with empty text and
\* changes no other entry.
OpenStep(raw) ==
    LET name == SubSeq(Strip(raw), 2, Len(Strip(raw)) - 1)
    IN  /\ parser'.in_tag = <<name>>
        /\ DOMAIN parser'.config = DOMAIN parser.config \cup {name}
        /\ parser'.config[name] = Text(<<>>)
        /\ \A k \in DOMAIN parser.config \ {name} :
              parser'.config[k] = parser.config[k]

\* C20: at most one block is open at any time; a closing tag closes whichever
\* block is open, whatever its own name, and changes nothing when none is
\* open; an opening tag makes its name the open block and resets config[name]
\* to empty text, discarding the value the name held and leaving every other
\* entry, the previously open block's included, as it was.
C20_OneOpenBlock ==
    /\ [](Len(parser.in_tag) <= 1)
    /\ [][ \A raw \in LinePool :
             (ReadsLine(raw) /\ ~IsCommentOrBlank(raw)) =>
                 /\ IsCloseTag(Strip(raw)) => CloseStep
                 /\ IsOpenTag(Strip(raw)) => OpenStep(raw) ]_vars

C20_Witness ==
    /\ parser.lines = <<DevTun0Line, OpenCa, OpenDev, CloseCa>>
    /\ parser.config = (DevKey :> Text(<<>>)) @@ (CaKey :> Text(<<>>))
    /\ parser.in_tag = <<>>

====
